---- MODULE Spec2Model ----
(***************************************************************************)
(* Model of the untwister seed search: SpawnThreads, the BruteForce        *)
(* workers, the StatusThread progress reporter and DivisionOfLabor         *)
(* (src/untwister.cpp), run against the GlibcRand generator                *)
(* (src/prngs/GlibcRand.cpp), which forwards to the C library's srand()    *)
(* and rand() and therefore to ONE generator state per process.            *)
(*                                                                         *)
(* uint32_t is modelled as an unsigned word of WordBits bits; all          *)
(* arithmetic the code does on uint32_t is done modulo 2^WordBits.         *)
(***************************************************************************)
EXTENDS Integers, Sequences, FiniteSets, TLC

\* ---------------------------------------------------------------- bounds
WordBits == 2
MaxThreads == 2
MaxDepth == 2
MaxObs == 2
MaxSeeds == 4
MaxDivWorkers == 6
MaxInfObs == 4
MaxStateSize == 2

Modulus == 2 ^ WordBits
UINT_MAX == Modulus - 1
Word == 0 .. UINT_MAX

Add32(a, b) == (a + b) % Modulus
Sub32(a, b) == ((a - b) + Modulus) % Modulus

\* ------------------------------------------------------------- variables
VARIABLES
    threads,            \* const unsigned int threads
    lowerBoundSeed,     \* uint32_t lowerBoundSeed
    upperBoundSeed,     \* uint32_t upperBoundSeed
    depth,              \* uint32_t depth
    minimumConfidence,  \* double minimumConfidence, as a fraction <<num, den>>
    observedOutputs,    \* static std::vector<uint32_t> observedOutputs
    labor,              \* SpawnThreads: std::vector<uint32_t> labor
    isCompleted,        \* SpawnThreads: bool isCompleted, shared by reference
    status,             \* std::vector<uint32_t> *status
    answers,            \* std::vector<std::vector<Seed>*> *answers
    randState,          \* the C library's generator state behind srand()/rand()
    pc,                 \* position of each BruteForce thread
    startingSeed,       \* BruteForce parameter, per worker
    endingSeed,         \* BruteForce parameter, per worker
    seedIndex,          \* BruteForce local, per worker
    index,              \* BruteForce local, per worker
    matchesFound,       \* BruteForce local, per worker
    rpc,                \* position of the main thread in SpawnThreads/StatusThread
    sum,                \* StatusThread local
    rindex,             \* StatusThread local (its loop variable index)
    finders,            \* history: workers that executed line 115
    tested,             \* history: per worker, the seeds it passed to seed(), in order
    inf                 \* InferState: its locals, its position and what it printed

vars == << threads, lowerBoundSeed, upperBoundSeed, depth, minimumConfidence,
           observedOutputs, labor, isCompleted, status, answers, randState,
           pc, startingSeed, endingSeed, seedIndex, index, matchesFound,
           rpc, sum, rindex, finders, tested, inf >>

\* What no step of SpawnThreads, BruteForce and StatusThread writes: the
\* arguments of FindSeed, the observations and what InferState has left.
params == << threads, lowerBoundSeed, upperBoundSeed, depth, minimumConfidence,
             observedOutputs, inf >>

\* What no step of InferState writes.
search == << labor, isCompleted, status, answers, randState, pc, startingSeed,
             endingSeed, seedIndex, index, matchesFound, sum, rindex, finders,
             tested >>

Workers == 0 .. (threads - 1)

\* ------------------------------------------------------------ generator
\* rand(): one step of the process-wide generator. The C library's algorithm
\* is not part of the repository; it is modelled as a full-period linear
\* congruential step on the word, whose output is the new state.
RandStep(x) == (5 * x + 3) % Modulus

\* srand(value): the state the process-wide generator has after seeding.
SeedState(value) == value % Modulus

\* The first n outputs of a generator seeded with s and used by nobody else.
RECURSIVE StreamFrom(_, _)
StreamFrom(x, n) == IF n = 0 THEN << >> ELSE << RandStep(x) >> \o StreamFrom(RandStep(x), n - 1)

Outputs(s, n) == StreamFrom(SeedState(s), n)

\* ----------------------------------------------------------- confidence
\* ((double) matchesFound / (double) observedOutputs.size()) * 100.0, kept
\* exact as the fraction <<numerator, denominator>>.
Confidence(m, n) == << m * 100, n >>

\* The comparison of line 109 the wrong way round: confidence <= minimumConfidence.
ConfGeq(a, b) == b[1] * a[2] <= a[1] * b[2]

\* minimumConfidence <= confidence on two such fractions.
ConfLeq(a, b) == a[1] * b[2] <= b[1] * a[2]

IsHundred(c) == c[1] = 100 * c[2]

\* ----------------------------------------------------- DivisionOfLabor
RECURSIVE DivisionLoop(_, _, _, _, _)
DivisionLoop(i, numberOfWorkers, work, leftover, acc) ==
    IF i >= numberOfWorkers THEN acc
    ELSE IF 0 < leftover
         THEN DivisionLoop(i + 1, numberOfWorkers, work, leftover - 1,
                           [acc EXCEPT ![i] = Add32(work, 1)])
         ELSE DivisionLoop(i + 1, numberOfWorkers, work, leftover,
                           [acc EXCEPT ![i] = work])

\* DivisionOfLabor with the leftover handed out to nobody.
DivisionOfLaborNoLeftover(sizeOfWork, numberOfWorkers) ==
    DivisionLoop(0, numberOfWorkers, sizeOfWork \div numberOfWorkers, 0,
                 [i \in 0 .. (numberOfWorkers - 1) |-> 0])

DivisionOfLabor(sizeOfWork, numberOfWorkers) ==
    DivisionLoop(0, numberOfWorkers, sizeOfWork \div numberOfWorkers,
                 sizeOfWork % numberOfWorkers,
                 [i \in 0 .. (numberOfWorkers - 1) |-> 0])

\* startAt of worker id: lowerBoundSeed plus the labor of the workers before it.
RECURSIVE StartAt(_, _, _)
StartAt(lower, lab, id) ==
    IF id = 0 THEN lower ELSE Add32(StartAt(lower, lab, id - 1), lab[id - 1])

\* ----------------------------------------------------------------- Init
\* The subsequences of q (in order, not necessarily contiguous).
RECURSIVE SubSeqs(_)
SubSeqs(q) ==
    IF q = << >> THEN { << >> }
    ELSE LET rest == SubSeqs(Tail(q))
         IN  rest \cup { << Head(q) >> \o r : r \in rest }

\* Observations are taken from the stream of some seed of the word, at the
\* first MaxDepth positions.
ObsSet ==
    { o \in UNION { SubSeqs(Outputs(s, MaxDepth)) : s \in Word } :
        0 < Len(o) /\ Len(o) <= MaxObs }

ConfSet == { << 50, 1 >>, << 100, 1 >> }

\* InferState has returned false without a window (lines 243-248) and main
\* has called FindSeed.
InferReturned ==
    [ pc |-> "returned", stateSize |-> 1, i |-> 0, state |-> << >>,
      predictions_forward |-> << >>, predictions_backward |-> << >>,
      matchesFound |-> 0, index_pred |-> 0, index_obs |-> 0,
      highscore |-> << 0, 1 >>, scores |-> << >>, best_state |-> << >>,
      result |-> FALSE, report |-> << "insufficient" >>,
      readForward |-> {}, readBackward |-> {} ]

NoThreads(n) ==
    /\ labor = << >>
    /\ isCompleted = FALSE
    /\ status = [w \in 0 .. (n - 1) |-> 0]
    /\ answers = [w \in 0 .. (n - 1) |-> << >>]
    /\ randState = 0
    /\ pc = [w \in 0 .. (n - 1) |-> "unborn"]
    /\ startingSeed = [w \in 0 .. (n - 1) |-> 0]
    /\ endingSeed = [w \in 0 .. (n - 1) |-> 0]
    /\ seedIndex = [w \in 0 .. (n - 1) |-> 0]
    /\ index = [w \in 0 .. (n - 1) |-> 0]
    /\ matchesFound = [w \in 0 .. (n - 1) |-> 0]
    /\ sum = 0
    /\ rindex = 0
    /\ finders = {}
    /\ tested = [w \in 0 .. (n - 1) |-> << >>]

Idle(n) ==
    /\ NoThreads(n)
    /\ rpc = "spawn"
    /\ inf = InferReturned

Init ==
    /\ threads \in 1 .. MaxThreads
    /\ lowerBoundSeed \in Word
    /\ upperBoundSeed \in Word
    /\ lowerBoundSeed <= upperBoundSeed
    /\ (upperBoundSeed - lowerBoundSeed) + threads <= MaxSeeds
    /\ depth \in 1 .. MaxDepth
    /\ minimumConfidence \in ConfSet
    /\ observedOutputs \in ObsSet
    /\ Idle(threads)

\* ---------------------------------------------------------- SpawnThreads
SpawnThreads ==
    /\ rpc = "spawn"
    /\ LET lab == DivisionOfLabor(Sub32(upperBoundSeed, lowerBoundSeed), threads)
       IN  /\ labor' = lab
           /\ startingSeed' = [w \in Workers |-> StartAt(lowerBoundSeed, lab, w)]
           /\ endingSeed' = [w \in Workers |-> Add32(StartAt(lowerBoundSeed, lab, w), lab[w])]
           /\ seedIndex' = [w \in Workers |-> StartAt(lowerBoundSeed, lab, w)]
    /\ pc' = [w \in Workers |-> "seed"]
    /\ rpc' = "while"
    /\ UNCHANGED << params, isCompleted, status, answers, randState, index,
                    matchesFound, sum, rindex, finders, tested >>

\* ------------------------------------------------------------ BruteForce
\* The seeds the run has tested so far, over all workers. A run whose loops end
\* by themselves tests (upperBoundSeed - lowerBoundSeed) + threads seeds; a
\* loop that never ends is followed until MaxSeeds seeds have been tested.
RECURSIVE TotalLen(_, _)
TotalLen(f, n) == IF n = 0 THEN 0 ELSE Len(f[n - 1]) + TotalLen(f, n - 1)

Attempts == TotalLen(tested, threads)

\* ++seedIndex and the loop condition seedIndex <= endingSeed.
NextSeedIndex(w) == Add32(seedIndex[w], 1)

NextPc(w) == IF NextSeedIndex(w) <= endingSeed[w] THEN "seed" ELSE "done"

\* generator->seed(seedIndex); matchesFound = 0; index = 0
Seed(w) ==
    /\ pc[w] = "seed"
    /\ Attempts < MaxSeeds
    /\ randState' = SeedState(seedIndex[w])
    /\ matchesFound' = [matchesFound EXCEPT ![w] = 0]
    /\ index' = [index EXCEPT ![w] = 0]
    /\ pc' = [pc EXCEPT ![w] = IF 0 < depth THEN "rand" ELSE "check"]
    /\ tested' = [tested EXCEPT ![w] = Append(@, seedIndex[w])]
    /\ UNCHANGED << params, labor, isCompleted, status, answers, startingSeed,
                    endingSeed, seedIndex, rpc, sum, rindex, finders >>

\* One iteration of the depth loop: nextRand = generator->random(), compared
\* with observedOutputs[matchesFound].
Rand(w) ==
    /\ pc[w] = "rand"
    /\ LET nextRand == RandStep(randState)
           observed == observedOutputs[matchesFound[w] + 1]
           hit      == observed = nextRand
           m        == IF hit THEN matchesFound[w] + 1 ELSE matchesFound[w]
           winner   == hit /\ m = Len(observedOutputs)
           i        == IF winner THEN index[w] ELSE index[w] + 1
       IN  /\ randState' = nextRand
           /\ matchesFound' = [matchesFound EXCEPT ![w] = m]
           /\ index' = [index EXCEPT ![w] = i]
           /\ pc' = [pc EXCEPT ![w] = IF winner \/ ~(i < depth) THEN "check" ELSE "rand"]
    /\ UNCHANGED << params, labor, isCompleted, status, answers, startingSeed,
                    endingSeed, seedIndex, rpc, sum, rindex, finders, tested >>

\* if (isCompleted) break;
Check(w) ==
    /\ pc[w] = "check"
    /\ pc' = [pc EXCEPT ![w] = IF isCompleted THEN "done" ELSE "status"]
    /\ UNCHANGED << params, labor, isCompleted, status, answers, randState,
                    startingSeed, endingSeed, seedIndex, index, matchesFound,
                    rpc, sum, rindex, finders, tested >>

\* status->at(id) = seedIndex - startingSeed; the confidence test and push_back;
\* when the seed is no winner, ++seedIndex and the loop condition.
StatusWrite(w) ==
    /\ pc[w] = "status"
    /\ LET confidence == Confidence(matchesFound[w], Len(observedOutputs))
           reported   == ConfLeq(minimumConfidence, confidence)
           winner     == matchesFound[w] = Len(observedOutputs)
       IN  /\ status' = [status EXCEPT ![w] = Sub32(seedIndex[w], startingSeed[w])]
           /\ answers' = [answers EXCEPT ![w] =
                            IF reported THEN Append(@, << seedIndex[w], confidence >>) ELSE @]
           /\ IF winner
              THEN /\ pc' = [pc EXCEPT ![w] = "setflag"]
                   /\ UNCHANGED seedIndex
              ELSE /\ pc' = [pc EXCEPT ![w] = NextPc(w)]
                   /\ seedIndex' = [seedIndex EXCEPT ![w] = NextSeedIndex(w)]
    /\ UNCHANGED << params, labor, isCompleted, randState, startingSeed,
                    endingSeed, index, matchesFound, rpc, sum, rindex, finders,
                    tested >>

\* isCompleted = true; then ++seedIndex and the loop condition.
SetFlag(w) ==
    /\ pc[w] = "setflag"
    /\ isCompleted' = TRUE
    /\ finders' = finders \cup { w }
    /\ pc' = [pc EXCEPT ![w] = NextPc(w)]
    /\ seedIndex' = [seedIndex EXCEPT ![w] = NextSeedIndex(w)]
    /\ UNCHANGED << params, labor, status, answers, randState, startingSeed,
                    endingSeed, index, matchesFound, rpc, sum, rindex, tested >>

\* ---------------------------------------------------------- StatusThread
\* 100.0 <= ((double) sum / (double) totalWork) * 100.0; 0/0 is NaN, which
\* compares false, and x/0 for x > 0 is +infinity.
ReachedHundred(s, totalWork) == IF totalWork = 0 THEN 0 < s ELSE totalWork <= s

\* while (!isCompleted) { unsigned int sum = 0; index = 0; ...
StatusWhile ==
    /\ rpc = "while"
    /\ IF isCompleted
       THEN rpc' = "join" /\ UNCHANGED << sum, rindex >>
       ELSE rpc' = "read" /\ sum' = 0 /\ rindex' = 0
    /\ UNCHANGED << params, labor, isCompleted, status, answers, randState, pc,
                    startingSeed, endingSeed, seedIndex, index, matchesFound,
                    finders, tested >>

\* sum += status->at(index); ++index
StatusRead ==
    /\ rpc = "read"
    /\ sum' = Add32(sum, status[rindex])
    /\ rindex' = rindex + 1
    /\ rpc' = IF rindex + 1 < threads THEN "read" ELSE "write"
    /\ UNCHANGED << params, labor, isCompleted, status, answers, randState, pc,
                    startingSeed, endingSeed, seedIndex, index, matchesFound,
                    finders, tested >>

\* isCompleted = (100.0 <= percent); print; sleep
StatusWrite100 ==
    /\ rpc = "write"
    /\ isCompleted' = ReachedHundred(sum, Sub32(upperBoundSeed, lowerBoundSeed))
    /\ rpc' = "while"
    /\ UNCHANGED << params, labor, status, answers, randState, pc, startingSeed,
                    endingSeed, seedIndex, index, matchesFound, sum, rindex,
                    finders, tested >>

\* pool[id].join() for every id
Join ==
    /\ rpc = "join"
    /\ \A w \in Workers : pc[w] = "done"
    /\ rpc' = "joined"
    /\ UNCHANGED << params, labor, isCompleted, status, answers, randState, pc,
                    startingSeed, endingSeed, seedIndex, index, matchesFound,
                    sum, rindex, finders, tested >>

Worker(w) == Seed(w) \/ Rand(w) \/ Check(w) \/ StatusWrite(w) \/ SetFlag(w)

Next ==
    \/ SpawnThreads
    \/ \E w \in Workers : Seed(w)
    \/ \E w \in Workers : Rand(w)
    \/ \E w \in Workers : Check(w)
    \/ \E w \in Workers : StatusWrite(w)
    \/ \E w \in Workers : SetFlag(w)
    \/ StatusWhile
    \/ StatusRead
    \/ StatusWrite100
    \/ Join

Spec == Init /\ [][Next]_vars

\* ------------------------------------------------- other specifications
\* DivisionOfLabor on its own: SpawnThreads' call of it for every seed range
\* of the word and up to MaxDivWorkers workers; no thread runs.
DivInit ==
    /\ threads \in 1 .. MaxDivWorkers
    /\ lowerBoundSeed \in Word
    /\ upperBoundSeed \in Word
    /\ lowerBoundSeed <= upperBoundSeed
    /\ depth = 1
    /\ minimumConfidence = << 100, 1 >>
    /\ observedOutputs = << 0 >>
    /\ Idle(threads)

SpecDivision == DivInit /\ [][SpawnThreads]_vars

\* The runs whose loops end by themselves (upperBoundSeed below UINT_MAX) on a
\* range of at least two seeds, with every thread scheduled again and again.
FairInit ==
    /\ Init
    /\ lowerBoundSeed < upperBoundSeed
    /\ upperBoundSeed < UINT_MAX

Reporter == StatusWhile \/ StatusRead \/ StatusWrite100 \/ Join

WorkerThread(w) == w \in Workers /\ Worker(w)

SpecFair ==
    /\ FairInit
    /\ [][Next]_vars
    /\ WF_vars(SpawnThreads)
    /\ WF_vars(Reporter)
    /\ \A w \in 0 .. (MaxThreads - 1) : WF_vars(WorkerThread(w))

\* The search with one worker: no other thread uses the generator.
SingleInit ==
    /\ Init
    /\ threads = 1

SpecSingle == SingleInit /\ [][Next]_vars

\* ------------------------------------------------------------ InferState
\* The values of the observations and of the predictions in the inference runs.
InferValues == 0 .. 1

\* The sequences over S of length at most m.
RECURSIVE SeqsUpTo(_, _)
SeqsUpTo(S, m) ==
    IF m = 0 THEN { << >> }
    ELSE LET shorter == SeqsUpTo(S, m - 1)
         IN  shorter \cup { << v >> \o q : v \in S, q \in { x \in shorter : Len(x) = m - 1 } }

InferObsSet == { o \in SeqsUpTo(InferValues, MaxInfObs) : 0 < Len(o) }

\* What predictForward(m) and predictBackward(m) of a generator can return:
\* at most m values. GlibcRand returns none; the other generators of the
\* factory are known by their contract only.
Predictions(m) == SeqsUpTo(InferValues, m)

\* observedOutputs[j], j counted from 0; a read past the end yields any value.
ObservedAt(j) ==
    IF j < Len(observedOutputs) THEN { observedOutputs[j + 1] } ELSE InferValues

\* std::vector<uint32_t> state(first, last): the window of stateSize values at i.
Window(i, stateSize) == SubSeq(observedOutputs, i + 1, i + stateSize)

\* (double)(matchesFound*100) / (double)(observedOutputs.size() - stateSize),
\* kept exact as a fraction.
Score(m, windows) == << m * 100, windows >>

\* score > highscore on two such fractions.
ScoreGt(a, b) == a[1] * b[2] > b[1] * a[2]

\* index_obs < observedOutputs.size() && index_pred < predictions_forward.size()
ForwardGuard(index_obs, index_pred, predictions) ==
    index_obs < Len(observedOutputs) /\ index_pred < Len(predictions)

\* index_obs > 0 && index_pred < predictions_backward.size()
BackwardGuard(index_obs, index_pred, predictions) ==
    index_obs > 0 /\ index_pred < Len(predictions)

\* The test of line 243 without the case of equality.
InsufficientStrict(n, stateSize) == n < stateSize

\* observedOutputs.size() <= stateSize
Insufficient(n, stateSize) == n <= stateSize

\* The start of a loop body that keeps the match count of the window before.
NewWindowKeepCount(r, pf, pb) ==
    [r EXCEPT !.pc = "forward",
              !.state = Window(r.i, r.stateSize),
              !.predictions_forward = pf,
              !.predictions_backward = pb,
              !.index_pred = 0,
              !.index_obs = r.i + r.stateSize,
              !.readForward = {},
              !.readBackward = {}]

\* The start of a loop body (lines 257-281): the window becomes the
\* generator's state, the predictions pf and pb are made, matchesFound = 0,
\* index_pred = 0, index_obs = i + stateSize.
NewWindow(r, pf, pb) ==
    [r EXCEPT !.pc = "forward",
              !.state = Window(r.i, r.stateSize),
              !.predictions_forward = pf,
              !.predictions_backward = pb,
              !.matchesFound = 0,
              !.index_pred = 0,
              !.index_obs = r.i + r.stateSize,
              !.readForward = {},
              !.readBackward = {}]

\* Entry of InferState up to the for loop: the test for too few observations
\* and the initialisation of highscore, scores and best_state.
InferEntry ==
    /\ rpc = "main"
    /\ inf.pc = "entry"
    /\ IF Insufficient(Len(observedOutputs), inf.stateSize)
       THEN inf' = [inf EXCEPT !.pc = "returned", !.result = FALSE,
                               !.report = << "insufficient" >>]
       ELSE inf' = [inf EXCEPT !.pc = "window", !.highscore = << 0, 1 >>,
                               !.scores = << >>, !.best_state = << >>, !.i = 0]
    /\ UNCHANGED << threads, lowerBoundSeed, upperBoundSeed, depth,
                    minimumConfidence, observedOutputs, rpc, search >>

\* The head of the for loop. While i < n - stateSize: the window becomes the
\* generator's state and the predictions are made. At the end of the loop:
\* the analysis of the scores and return false.
InferWindow ==
    /\ inf.pc = "window"
    /\ LET n == Len(observedOutputs)
           k == inf.stateSize
       IN  IF inf.i < n - k
           THEN \E pf \in Predictions((n - k) - inf.i), pb \in Predictions(inf.i) :
                    inf' = NewWindow(inf, pf, pb)
           ELSE inf' = [inf EXCEPT !.pc = "returned", !.result = FALSE,
                                   !.report =
                                       IF ScoreGt(inf.highscore, << 0, 1 >>)
                                       THEN << "best", inf.highscore, inf.state >>
                                       ELSE << "failed" >>]
    /\ UNCHANGED << threads, lowerBoundSeed, upperBoundSeed, depth,
                    minimumConfidence, observedOutputs, rpc, search >>

\* One iteration of the forward loop, or its end and the reset of the cursors
\* for the backward loop.
InferForward ==
    /\ inf.pc = "forward"
    /\ IF ForwardGuard(inf.index_obs, inf.index_pred, inf.predictions_forward)
       THEN \E observed \in ObservedAt(inf.index_obs) :
                LET hit == observed = inf.predictions_forward[inf.index_pred + 1]
                IN  inf' = [inf EXCEPT !.matchesFound = IF hit THEN @ + 1 ELSE @,
                                       !.index_obs = IF hit THEN @ + 1 ELSE @,
                                       !.index_pred = @ + 1,
                                       !.readForward = @ \cup { inf.index_obs }]
       ELSE inf' = [inf EXCEPT !.pc = "backward", !.index_pred = 0,
                               !.index_obs = inf.i]
    /\ UNCHANGED << threads, lowerBoundSeed, upperBoundSeed, depth,
                    minimumConfidence, observedOutputs, rpc, search >>

\* One iteration of the backward loop, or its end.
InferBackward ==
    /\ inf.pc = "backward"
    /\ IF BackwardGuard(inf.index_obs, inf.index_pred, inf.predictions_backward)
       THEN \E observed \in ObservedAt(inf.index_obs) :
                LET hit == observed = inf.predictions_backward[inf.index_pred + 1]
                IN  inf' = [inf EXCEPT !.matchesFound = IF hit THEN @ + 1 ELSE @,
                                       !.index_obs = IF hit THEN @ - 1 ELSE @,
                                       !.index_pred = @ + 1,
                                       !.readBackward = @ \cup { inf.index_obs }]
       ELSE inf' = [inf EXCEPT !.pc = "judge"]
    /\ UNCHANGED << threads, lowerBoundSeed, upperBoundSeed, depth,
                    minimumConfidence, observedOutputs, rpc, search >>

\* The end of the loop body: a perfect guess is reported, as a seed when
\* reverseToSeed succeeds and as the state otherwise, and InferState returns
\* true; any other count is scored and the loop goes on with i + 1.
InferJudge ==
    /\ inf.pc = "judge"
    /\ LET windows == Len(observedOutputs) - inf.stateSize
           score == Score(inf.matchesFound, windows)
       IN  IF inf.matchesFound = windows
           THEN \E reversed \in BOOLEAN :
                    inf' = [inf EXCEPT !.pc = "returned", !.result = TRUE,
                                       !.report = IF reversed THEN << "seed" >>
                                                  ELSE << "state", inf.state >>]
           ELSE inf' = [inf EXCEPT !.pc = "window",
                                   !.scores = Append(@, score),
                                   !.best_state = IF ScoreGt(score, inf.highscore)
                                                  THEN inf.state ELSE @,
                                   !.i = @ + 1]
    /\ UNCHANGED << threads, lowerBoundSeed, upperBoundSeed, depth,
                    minimumConfidence, observedOutputs, rpc, search >>

\* main calling FindSeed whatever InferState returned.
MainAlwaysFindSeed ==
    /\ rpc = "main"
    /\ inf.pc = "returned"
    /\ rpc' = "spawn"
    /\ UNCHANGED << params, search >>

\* main after InferState: return EXIT_SUCCESS when it returned true, else the
\* call of FindSeed, which calls SpawnThreads.
MainAfterInfer ==
    /\ rpc = "main"
    /\ inf.pc = "returned"
    /\ rpc' = IF inf.result THEN "exit" ELSE "spawn"
    /\ UNCHANGED << params, search >>

InferState == InferEntry \/ InferWindow \/ InferForward \/ InferBackward \/ InferJudge

\* main from its call of InferState on, with the default seed range, depth
\* and minimum confidence, up to the spawning of the workers.
InferInit ==
    /\ threads \in 1 .. MaxThreads
    /\ lowerBoundSeed = 0
    /\ upperBoundSeed = UINT_MAX
    /\ depth = MaxDepth
    /\ minimumConfidence = << 100, 1 >>
    /\ observedOutputs \in InferObsSet
    /\ NoThreads(threads)
    /\ rpc = "main"
    /\ \E k \in 1 .. MaxStateSize :
          inf = [InferReturned EXCEPT !.pc = "entry", !.stateSize = k,
                                      !.report = << "none" >>]

NextInfer ==
    \/ InferEntry
    \/ InferWindow
    \/ InferForward
    \/ InferBackward
    \/ InferJudge
    \/ MainAfterInfer
    \/ SpawnThreads

SpecInfer == InferInit /\ [][NextInfer]_vars

\* ------------------------------------------------------------- helpers
\* o is an in-order, not necessarily contiguous, subsequence of q.
IsSubSeq(o, q) == o \in SubSeqs(q)

\* The observations are within the first depth outputs of the generator
\* seeded with s and used by nobody else.
Reproduces(s) == IsSubSeq(observedOutputs, Outputs(s, depth))

Range == lowerBoundSeed .. upperBoundSeed

RECURSIVE SumTo(_, _)
SumTo(f, n) == IF n = 0 THEN 0 ELSE f[n - 1] + SumTo(f, n - 1)

AnswersOf(w) == { answers[w][i] : i \in 1 .. Len(answers[w]) }

AnswerSet == UNION { AnswersOf(w) : w \in Workers }

SeedsOf(S) == { a[1] : a \in S }

TestedBy(w) == { tested[w][i] : i \in 1 .. Len(tested[w]) }

\* The match count of one seed attempt on the stream q, as lines 86-100
\* compute it when the generator is used by this worker alone.
RECURSIVE GreedyCount(_, _, _)
GreedyCount(o, q, m) ==
    IF q = << >> \/ m = Len(o) THEN m
    ELSE GreedyCount(o, Tail(q), IF o[m + 1] = Head(q) THEN m + 1 ELSE m)

\* What a run with one worker collects when no seed of the range reproduces
\* the observations: every seed of the range is scored on its own stream.
OneWorkerAnswers ==
    { a \in { << s, Confidence(GreedyCount(observedOutputs, Outputs(s, depth), 0),
                               Len(observedOutputs)) >> : s \in Range } :
        ConfLeq(minimumConfidence, a[2]) }

\* ---------------------------------------------------------------- claims

\* C1. Completion latch: once isCompleted is true, no step of a worker or of
\* the reporter writes it back to false.
CompletionLatch == [][isCompleted => isCompleted']_vars

\* C2. Round-trip recovery: when the observations are the first K outputs of
\* the generator seeded with a seed s of the range, depth >= K and the minimum
\* confidence is 100, the answers collected at the end of the search contain
\* (s, 100.0). Stated for the runs in which s is the only seed of the range
\* that reproduces the observations, where no other perfect match can end the
\* search before s is tested.
RoundTripRecovery ==
    \A s \in Range :
        ( /\ rpc = "joined"
          /\ observedOutputs = Outputs(s, Len(observedOutputs))
          /\ Len(observedOutputs) <= depth
          /\ minimumConfidence = << 100, 1 >>
          /\ \A r \in Range : Reproduces(r) => r = s )
        => \E a \in AnswerSet : a[1] = s /\ IsHundred(a[2])

\* Worker f has recorded, and set the flag for, a seed that does reproduce the
\* observations.
FoundMatch(f) ==
    /\ f \in finders
    /\ \E a \in AnswersOf(f) : IsHundred(a[2]) /\ Reproduces(a[1])

\* C3. Cooperative cancellation: once some worker has found a seed matching
\* all observations and set the flag, every other worker leaves its seed loop
\* at its next check of the flag.
CooperativeCancellation ==
    [][ \A w \in Workers :
          ( /\ pc[w] = "check"
            /\ pc'[w] # "check"
            /\ \E f \in Workers \ { w } : FoundMatch(f) )
          => pc'[w] = "done" ]_vars

\* C4. Termination: under fair scheduling the reporter loop exits, every worker
\* returns and SpawnThreads reaches the end of its joins.
SearchTerminates == <>(rpc = "joined")

\* C5. Thread-count independence: a run with 2 workers collects the same set of
\* (seed, confidence) pairs as a run with 1 worker on the same input. Stated
\* for the inputs on which the 1-worker result does not depend on the
\* interleaving: no seed of the range reproduces the observations, the range
\* has at least two seeds and the loops end by themselves.
ThreadCountIndependence ==
    ( /\ rpc = "joined"
      /\ threads = 2
      /\ lowerBoundSeed < upperBoundSeed
      /\ upperBoundSeed < UINT_MAX
      /\ \A r \in Range : ~Reproduces(r) )
    => AnswerSet = OneWorkerAnswers

\* C6. Partitioner soundness: DivisionOfLabor(W, N) has exactly N sizes, which
\* sum to W and pairwise differ by at most 1; the first W mod N of them are
\* floor(W/N)+1 and the others floor(W/N).
PartitionerSound ==
    rpc # "spawn" =>
        LET W == upperBoundSeed - lowerBoundSeed
            N == threads
        IN  /\ DOMAIN labor = 0 .. (N - 1)
            /\ SumTo(labor, N) = W
            /\ \A i, j \in 0 .. (N - 1) :
                  labor[i] - labor[j] <= 1 /\ labor[j] - labor[i] <= 1
            /\ \A i \in 0 .. (N - 1) :
                  labor[i] = IF i < W % N THEN (W \div N) + 1 ELSE W \div N

\* A partition with both sizes in it: some workers get floor(W/N)+1 >= 2 and
\* the others floor(W/N) >= 1.
PartitionerSoundWitness ==
    /\ rpc # "spawn"
    /\ threads >= 2
    /\ (upperBoundSeed - lowerBoundSeed) % threads # 0
    /\ (upperBoundSeed - lowerBoundSeed) \div threads >= 1
    /\ labor[0] = labor[threads - 1] + 1

\* C7. Disjoint work items: no seed is tested by two different workers, and no
\* seed is in the answer lists of two different workers.
DisjointWorkItems ==
    \A v, w \in Workers :
        v # w => /\ TestedBy(v) \cap TestedBy(w) = {}
                 /\ SeedsOf(AnswersOf(v)) \cap SeedsOf(AnswersOf(w)) = {}

\* C8. Progress monotonicity: no step lowers a worker's progress counter, and
\* the counter never exceeds the length labor[id] of the worker's interval.
ProgressMonotone ==
    [][ \A w \in Workers :
          /\ status[w] <= status'[w]
          /\ labor' # << >> => status'[w] <= labor'[w] ]_vars

\* C9. Subsequence match semantics: at the end of a seed attempt the worker
\* counts a full match exactly when the observations are an in-order
\* subsequence of the first depth outputs of the generator seeded with that
\* seed.
SubsequenceMatch ==
    \A w \in Workers :
        pc[w] = "check" =>
            ( matchesFound[w] = Len(observedOutputs) <=> Reproduces(seedIndex[w]) )

\* C10. No false positive at 100%: (s, 100.0) is in an answer list only if the
\* observations are an in-order subsequence of the first depth outputs of the
\* generator seeded with s.
NoFalsePositive ==
    \A a \in AnswerSet : IsHundred(a[2]) => Reproduces(a[1])

\* C11. PRNG isolation: the outputs a worker obtains from seed(s) followed by
\* random() calls depend only on s, under every interleaving of the workers:
\* the value returned by the worker's next random() call, its (index+1)-th of
\* the attempt, is the (index+1)-th output of the generator seeded with
\* seedIndex.
PrngIsolation ==
    [][ \A w \in Workers :
          ( /\ pc[w] = "rand"
            /\ (index'[w] # index[w] \/ pc'[w] # pc[w]) )
          => randState' = Outputs(seedIndex[w], index[w] + 1)[index[w] + 1] ]_vars

\* C12. Candidate answers: with a minimum confidence in (0, 100] and at least
\* one observation, every step that changes a worker's answer list appends one
\* pair (seed, confidence) to it, where seed is the seed of the attempt,
\* confidence = 100 * matchesFound / |observations| for the match count of
\* the attempt, 0 < confidence <= 100 and minimum confidence <= confidence.
AnswerConfidence ==
    [][ \A w \in Workers :
          answers'[w] # answers[w] =>
              LET a == answers'[w][Len(answers'[w])]
                  K == Len(observedOutputs)
              IN  /\ answers'[w] = Append(answers[w], a)
                  /\ a[1] = seedIndex[w]
                  /\ 0 < a[2][2]
                  /\ a[2][1] * K = 100 * matchesFound[w] * a[2][2]
                  /\ 0 < a[2][1]
                  /\ a[2][1] <= 100 * a[2][2]
                  /\ minimumConfidence[1] * a[2][2] <= a[2][1] * minimumConfidence[2] ]_vars

\* An answer list that holds a partial match (50%) and a full match, after a
\* seed below the minimum confidence was tested and left out.
AnswerConfidenceWitness ==
    /\ minimumConfidence = << 50, 1 >>
    /\ Len(observedOutputs) = 2
    /\ \E a \in AnswersOf(0) : a[2][1] * 2 = 100 * a[2][2]
    /\ \E a \in AnswersOf(0) : IsHundred(a[2])
    /\ TestedBy(0) \ SeedsOf(AnswersOf(0)) # {}
    /\ pc[0] # "status"

\* C13. Ascending answers: within one worker's answer list the seeds are in
\* strictly ascending order, for every interval the worker can be given,
\* including one that ends at UINT_MAX. Stated for the runs in which no worker
\* has set the completion flag, so that no cleared flag is needed to go on.
AnswersAscending ==
    finders = {} =>
        \A w \in Workers :
            \A i, j \in 1 .. Len(answers[w]) :
                i < j => answers[w][i][1] < answers[w][j][1]

\* C18. Exhaustive search before completion by progress: when the reporter
\* sets the flag because the progress has reached 100%, no worker having found
\* a perfect match, every seed of [lowerBoundSeed, upperBoundSeed] has been
\* tested by some worker, also when upperBoundSeed = UINT_MAX.
ExhaustiveBeforeCompletion ==
    [][ ( /\ rpc = "write"
          /\ rpc' = "while"
          /\ isCompleted'
          /\ finders = {} )
        => Range \subseteq UNION { TestedBy(w) : w \in Workers } ]_vars

\* C19. Seed range: a worker passes to seed() only values of its interval
\* [startingSeed, endingSeed], each of them at most once, also when
\* endingSeed = UINT_MAX.
SeedsWithinInterval ==
    \A w \in Workers :
        pc[w] # "unborn" =>
            /\ \A i \in 1 .. Len(tested[w]) :
                  startingSeed[w] <= tested[w][i] /\ tested[w][i] <= endingSeed[w]
            /\ \A i, j \in 1 .. Len(tested[w]) : i < j => tested[w][i] # tested[w][j]

\* The number of windows InferState goes through, n - k.
WindowCount == Len(observedOutputs) - inf.stateSize

\* InferState has gone through all its windows without a perfect guess.
LoopExit == inf.pc = "returned" /\ ~inf.result /\ 0 < WindowCount

PositiveScores == { j \in 1 .. Len(inf.scores) : ScoreGt(inf.scores[j], << 0, 1 >>) }

\* The windows whose score no other window's score exceeds.
MaxScores ==
    { j \in 1 .. Len(inf.scores) :
        \A l \in 1 .. Len(inf.scores) : ~ScoreGt(inf.scores[l], inf.scores[j]) }

\* C14. Insufficient data: when the number of observations is at most the
\* generator's state size, InferState evaluates no window and returns false
\* with the warning, and main does not exit but goes on to the seed search.
InsufficientData ==
    Len(observedOutputs) <= inf.stateSize =>
        /\ inf.pc \in { "entry", "returned" }
        /\ inf.scores = << >> /\ inf.state = << >> /\ inf.i = 0
        /\ inf.pc = "returned" => ~inf.result /\ inf.report = << "insufficient" >>
        /\ rpc # "exit"
        /\ rpc # "main" => inf.pc = "returned"

\* As many observations as state words: InferState has returned and the
\* workers of the seed search are spawned.
InsufficientDataWitness ==
    /\ Len(observedOutputs) = inf.stateSize
    /\ inf.report = << "insufficient" >>
    /\ rpc = "while"
    /\ \A w \in Workers : pc[w] = "seed"

\* C15. Ordering of the two strategies: no worker exists before InferState
\* has returned; InferState returns true exactly when a window's match count
\* equals n - k, it has then reported a seed or a state and the program ends
\* with no worker spawned; when it returns false main goes on to the seed
\* search and never exits before it.
StrategyOrder ==
    /\ (rpc # "main" \/ \E w \in Workers : pc[w] # "unborn") => inf.pc = "returned"
    /\ (inf.pc = "returned" /\ 0 < WindowCount) =>
           (inf.result <=> inf.matchesFound = WindowCount)
    /\ (inf.pc = "returned" /\ inf.result) =>
           /\ inf.report[1] \in { "seed", "state" }
           /\ rpc \in { "main", "exit" }
           /\ \A w \in Workers : pc[w] = "unborn"
    /\ (inf.pc = "returned" /\ ~inf.result) => rpc \in { "main", "spawn", "while" }

\* A perfect guess at a window after the first, reported as a state, and the
\* program ended without a worker.
StrategyOrderWitness ==
    /\ rpc = "exit"
    /\ inf.result
    /\ inf.i > 0
    /\ inf.report[1] = "state"
    /\ \A w \in Workers : pc[w] = "unborn"

\* C16. Result without a perfect match: after all windows are scored, if some
\* window scored more than 0 InferState reports a best state with the highest
\* score of all windows; it reports failure only if every window scored 0.
ReportsBestState ==
    LoopExit =>
        /\ PositiveScores # {} =>
               /\ inf.report[1] = "best"
               /\ \E j \in MaxScores :
                      /\ ~ScoreGt(inf.report[2], inf.scores[j])
                      /\ ~ScoreGt(inf.scores[j], inf.report[2])
        /\ inf.report = << "failed" >> => PositiveScores = {}

\* C17. Tie-break: at the end of the loop best_state is the state of the
\* earliest window that attains the maximum score, when some window scored
\* more than 0.
EarliestBestState ==
    (LoopExit /\ PositiveScores # {}) =>
        \E j \in MaxScores :
            /\ \A l \in MaxScores : j <= l
            /\ inf.best_state = Window(j - 1, inf.stateSize)

\* C20. Score bound: in every window the forward and backward match count is
\* at most n - k and every recorded score is in [0, 100]; the forward cursor
\* reads the observations only at indices from i + k to n - 1 and the backward
\* cursor only at indices from 1 to i, never at index 0.
ScoreBound ==
    /\ inf.pc \in { "forward", "backward", "judge" } =>
           /\ inf.matchesFound <= WindowCount
           /\ \A j \in inf.readForward :
                  inf.i + inf.stateSize <= j /\ j < Len(observedOutputs)
           /\ \A j \in inf.readBackward : 0 < j /\ j <= inf.i
    /\ \A j \in 1 .. Len(inf.scores) :
           /\ 0 < inf.scores[j][2]
           /\ 0 <= inf.scores[j][1]
           /\ inf.scores[j][1] <= 100 * inf.scores[j][2]

\* A window in the middle whose predictions all match: the forward cursor has
\* read the last observation, the backward cursor index 1, and the count is
\* n - k. An earlier window has a score recorded.
ScoreBoundWitness ==
    /\ inf.pc = "judge"
    /\ inf.i > 0
    /\ (Len(observedOutputs) - 1) \in inf.readForward
    /\ 1 \in inf.readBackward
    /\ inf.matchesFound = WindowCount
    /\ PositiveScores # {}

====
